---- MODULE Spec2Model ----
(***************************************************************************)
(* Building-experience page controller (Content/js/building-types.js):     *)
(* SpaceModel, SpaceView and SpaceController as one state machine.  Every  *)
(* event handler is one action; a handler's body is the composition of the *)
(* view/model methods it calls, each written as a function from the page    *)
(* state (the record St) to the page state.                                 *)
(***************************************************************************)
EXTENDS Integers, Sequences, FiniteSets, TLC

\* ------------------------------------------------------------------ bounds
\* Granularity of the model's clock, in milliseconds per Tick.
TickMs == 100

\* Length of the longest systemEquipment list in the fetched data.
MaxEquipment == 3

\* Longest space name, and longest space list, of the enumerated payloads.
MaxNameLen == 3
MaxSpaces == 2

\* ------------------------------------------------------- program constants
\* setTimeout(..., 100) in restoreLandingSvg
RESTORE_DELAY == 100

\* ------------------------------------------------------------- identifiers
\* Ids are character sequences, so that endsWith('s') and slice(0, -1) are
\* computed as the code computes them.
Gym == <<"g", "y", "m">>
Lobby == <<"l", "o", "b", "b", "y">>
Kitchen == <<"k", "i", "t", "c", "h", "e", "n">>
Classroom == <<"c", "l", "a", "s", "s", "r", "o", "o", "m">>
Classrooms == Classroom \o <<"s">>
Annex == <<"a", "n", "n", "e", "x">>
Ghost == <<"g", "h", "o", "s", "t">>
NoIdAttr == <<>>

\* JavaScript null / undefined for an id-valued field.
Null == <<"<null>">>

\* APP_CONFIG.svg.buildingRoof
buildingRoof == <<"s", "c", "h", "o", "o", "l", "-", "r", "o", "o", "f">>

\* APP_CONFIG.constants.tabs
TabOverview == "overview"
TabEquipment == "system-equipment"
TabNarrative == "design-narrative"
Tabs == {TabOverview, TabEquipment, TabNarrative}

\* Absent data attribute of the overlay <object>.
NoData == <<"none", <<>>>>

\* transformSpaces: markerImg is a path built from the generated id.
MarkerImg(id) == <<"img", id>>

\* ------------------------------------------------------------ DataAdapter
UpperCase ==
  << "A", "B", "C", "D", "E", "F", "G", "H", "I", "J", "K", "L", "M",
     "N", "O", "P", "Q", "R", "S", "T", "U", "V", "W", "X", "Y", "Z" >>

LowerCase ==
  << "a", "b", "c", "d", "e", "f", "g", "h", "i", "j", "k", "l", "m",
     "n", "o", "p", "q", "r", "s", "t", "u", "v", "w", "x", "y", "z" >>

Digits == {"0", "1", "2", "3", "4", "5", "6", "7", "8", "9"}

\* The character class [a-z0-9].
IsAlnum(c) == c \in Digits \/ \E k \in 1 .. 26 : LowerCase[k] = c

\* String.prototype.toLowerCase, character by character.
ToLowerCase(name) ==
  [i \in 1 .. Len(name) |->
     IF \E k \in 1 .. 26 : UpperCase[k] = name[i]
       THEN LowerCase[CHOOSE k \in 1 .. 26 : UpperCase[k] = name[i]]
       ELSE name[i]]

\* replace(/[^a-z0-9]+/g, '-'): one hyphen for every maximal run of
\* characters outside [a-z0-9], from position i on.
RECURSIVE ReplaceRuns(_, _)
ReplaceRuns(str, i) ==
  IF i > Len(str) THEN <<>>
  ELSE IF IsAlnum(str[i]) THEN <<str[i]>> \o ReplaceRuns(str, i + 1)
  ELSE IF i > 1 /\ ~IsAlnum(str[i - 1]) THEN ReplaceRuns(str, i + 1)
  ELSE <<"-">> \o ReplaceRuns(str, i + 1)

\* replace(/^-|-$/g, ''): a hyphen at the start and a hyphen at the end.
TrimHyphens(str) ==
  LET t1 == IF Len(str) > 0 /\ str[1] = "-" THEN Tail(str) ELSE str
  IN IF Len(t1) > 0 /\ t1[Len(t1)] = "-" THEN SubSeq(t1, 1, Len(t1) - 1) ELSE t1

SchoolGymSlug == <<"s", "c", "h", "o", "o", "l", "-", "g", "y", "m">>

UnknownSpace ==
  <<"u", "n", "k", "n", "o", "w", "n", "-", "s", "p", "a", "c", "e">>

\* SPACE_ID_OVERRIDES[slug] || slug
SPACE_ID_OVERRIDES(slug) == IF slug = SchoolGymSlug THEN Gym ELSE slug

\* Mutant of GenerateId: the hyphens at the two ends are kept.
GenerateIdNoTrim(name) ==
  IF name = Null \/ name = <<>> THEN UnknownSpace
  ELSE SPACE_ID_OVERRIDES(ReplaceRuns(ToLowerCase(name), 1))

\* generateId; a missing name (undefined) is Null.
GenerateId(name) ==
  IF name = Null \/ name = <<>> THEN UnknownSpace
  ELSE SPACE_ID_OVERRIDES(TrimHyphens(ReplaceRuns(ToLowerCase(name), 1)))

\* transformSpaces: one space per payload entry, in order; the model
\* identifies a space by its position in the list and its generated id.
TransformSpaces(names) == [i \in 1 .. Len(names) |-> GenerateId(names[i])]

\* The space names (Title || Name) of the page's api-response.json.
DemoNames ==
  << <<"S", "c", "h", "o", "o", "l", " ", "G", "y", "m">>,
     <<"L", "o", "b", "b", "y">>,
     <<"C", "l", "a", "s", "s", "r", "o", "o", "m", "s">>,
     <<"K", "i", "t", "c", "h", "e", "n">> >>

\* The space list a successful fetch yields (ids in list order).
SpaceData == TransformSpaces(DemoNames)

\* What fetchData can meet: a good response, a rejected fetch, a response
\* that is not ok, a body that is not JSON, a body without value, with an
\* empty value list, or one on which the transformation throws.
Responses ==
  {"ok", "rejected", "httpError", "notJson", "noValue", "emptyValue", "throws"}

EmptyMeta == "empty"
FullMeta == "full"

\* { pageMetadata: {}, spaces: [] }
EmptyData == [pageMetadata |-> EmptyMeta, spaces |-> <<>>]

\* DataAdapter.transform: the catch block returns the empty structure.
Transform(resp, names) ==
  IF resp \in {"noValue", "emptyValue", "throws"} THEN EmptyData
  ELSE [pageMetadata |-> FullMeta, spaces |-> TransformSpaces(names)]

\* Mutant of FetchData: a failed fetch keeps the spaces of the payload.
FetchDataKeepsSpaces(resp, names) ==
  IF resp = "ok" THEN Transform(resp, names)
  ELSE [pageMetadata |-> EmptyMeta, spaces |-> TransformSpaces(names)]

\* SpaceService.fetchData: the catch block returns the empty structure.
FetchData(resp, names) ==
  IF resp \in {"rejected", "httpError", "notJson"} THEN EmptyData
  ELSE Transform(resp, names)

\* transformEquipment: the number of items of a space's systemEquipment
\* (a space without SystemEquipment in the payload gets the empty list).
EquipmentLen(space) ==
  CASE space = Gym -> MaxEquipment
    [] space = Lobby -> 1
    [] space = Kitchen -> MaxEquipment - 1
    [] OTHER -> 0

\* ------------------------------------------------------ markers document
\* The direct <g> children of the marker container, in document order.
\* id: the element id ("" when it has none); tag: its data-space-id
\* attribute (Null when absent); kids: the number of its own <g> children;
\* vis0 / hid0: the children that carry gh-child-visible / gh-child-hidden
\* in the file as authored.
Groups ==
  << [id |-> buildingRoof, tag |-> Null, kids |-> 1, vis0 |-> {}, hid0 |-> {}],
     [id |-> Gym, tag |-> Null, kids |-> 2, vis0 |-> {}, hid0 |-> {}],
     [id |-> Lobby, tag |-> Null, kids |-> 3, vis0 |-> {2}, hid0 |-> {1}],
     [id |-> Classroom, tag |-> Null, kids |-> 2, vis0 |-> {}, hid0 |-> {}],
     [id |-> Annex, tag |-> Ghost, kids |-> 1, vis0 |-> {}, hid0 |-> {}],
     [id |-> NoIdAttr, tag |-> Null, kids |-> 0, vis0 |-> {}, hid0 |-> {}],
     [id |-> Kitchen, tag |-> Lobby, kids |-> 1, vis0 |-> {}, hid0 |-> {}] >>

GroupIdx == 1 .. Len(Groups)

\* Click targets inside the markers document: a group (or a descendant of
\* it), the root <svg> (empty space), or nothing (elementFromPoint -> null).
RootTarget == 0
NoTarget == -1
Targets == GroupIdx \cup {RootTarget}

\* The groups the visibility engine treats as markers (exclusion rule).
MarkerGroups == {g \in GroupIdx : Groups[g].id # buildingRoof}

\* JavaScript truthiness of an id-valued argument.
Truthy(id) == id # Null /\ id # <<>>

Max(a, b) == IF a >= b THEN a ELSE b
Min(a, b) == IF a <= b THEN a ELSE b

\* ------------------------------------------------------------------ state
VARIABLES
  payload,            \* the space names in the response the server holds
  fetchCalls,         \* fetch() calls made so far
  pageMetadata,       \* SpaceModel.pageMetadata ("null" until init() sets it)
  phase,              \* "fetching": init() awaits fetchData; "ready": init() done
  spaces,             \* SpaceModel.spaces (sequence of ids)
  heroBound,          \* bindEvents bound the first hero button
  currentSpaceId,     \* SpaceModel.currentSpaceId
  currentTab,         \* SpaceModel.currentTab
  currentProductIndex, \* SpaceModel.currentProductIndex
  modalShown,         \* modal.style.display = 'flex'
  popoverVisible,     \* SpaceView.isPopoverVisible
  popoverShown,       \* popover.style.display is not 'none'
  buildingActive,     \* building scene carries 'active'
  detailActive,       \* detail scene carries 'active'
  backBtnShown,       \* back button display = 'flex'
  tabsDisabled,       \* t.disabled of the modal tabs
  activeTabs,         \* tabs carrying 'active'
  modalTitle,         \* modalTitle.textContent (a space's name, by id)
  systemNameShown,    \* modalSystemName display = 'block'
  activePanels,       \* tab contents carrying 'active'
  slides,             \* number of .product-slide elements in the carousel
  activeSlides,       \* slides carrying 'active' (indices from 0)
  activeDots,         \* per slide: the dots of its .carousel-dots carrying 'active'
  spaceSvgData,       \* data attribute of the detail scene's <object>
  overlayVisible,     \* overlay <object> carries 'is-visible'
  overlayData,        \* data attribute of the overlay <object>
  overlayLoaded,      \* the overlay document fired load (handlers attached)
  markersHidden,      \* markers <object> carries 'is-hidden'
  markersReady,       \* markers <object>.contentDocument is available
  hasContainer,       \* the markers document has an <svg> element (and so the groups)
  loadFired,          \* the markers <object> dispatched its load event
  markerClass,        \* groups carrying gh-marker-group
  childVisible,       \* per group: children carrying gh-child-visible
  childHidden,        \* per group: children carrying gh-child-hidden
  dimmed,             \* groups carrying gh-marker-dimmed
  bound,              \* per group: the space id its click listener carries
  docListeners,       \* click listeners on the markers document
  timers,             \* pending restore timers: remaining milliseconds
  sinceRestore,       \* ms since the last restoreLandingSvg (capped)
  restoreCalls,       \* restoreLandingSvg calls made by the last handler
  visCalls,           \* arguments of the last two effective updateMarkerVisibility calls
  preView,            \* header/tabs/overlay as they were when Detail was entered
  last                \* the last event handled

vars ==
  << payload, fetchCalls, pageMetadata, phase, spaces, heroBound, currentSpaceId, currentTab,
     currentProductIndex, slides, activeSlides, activeDots, modalShown,
     popoverVisible, popoverShown, buildingActive, detailActive, backBtnShown,
     tabsDisabled,
     activeTabs, modalTitle, systemNameShown, activePanels, spaceSvgData,
     overlayVisible, overlayData, overlayLoaded, markersHidden, markersReady,
     hasContainer, loadFired, markerClass, childVisible, childHidden, dimmed, bound,
     docListeners, timers, sinceRestore, restoreCalls, visCalls, preView, last >>

\* The part of the state the view/model methods read and write, as a record.
St ==
  [ payload |-> payload, fetchCalls |-> fetchCalls, pageMetadata |-> pageMetadata,
    spaces |-> spaces, currentSpaceId |-> currentSpaceId, currentTab |-> currentTab,
    currentProductIndex |-> currentProductIndex, slides |-> slides,
    activeSlides |-> activeSlides, activeDots |-> activeDots,
    modalShown |-> modalShown, popoverVisible |-> popoverVisible,
    popoverShown |-> popoverShown,
    buildingActive |-> buildingActive, detailActive |-> detailActive,
    backBtnShown |-> backBtnShown, tabsDisabled |-> tabsDisabled,
    activeTabs |-> activeTabs, modalTitle |-> modalTitle,
    systemNameShown |-> systemNameShown, activePanels |-> activePanels,
    spaceSvgData |-> spaceSvgData, overlayVisible |-> overlayVisible,
    overlayData |-> overlayData, overlayLoaded |-> overlayLoaded,
    markersHidden |-> markersHidden, markersReady |-> markersReady,
    hasContainer |-> hasContainer,
    markerClass |-> markerClass, childVisible |-> childVisible,
    childHidden |-> childHidden, dimmed |-> dimmed, bound |-> bound,
    docListeners |-> docListeners, timers |-> timers,
    sinceRestore |-> sinceRestore, restoreCalls |-> 0, visCalls |-> visCalls ]

\* The state a handler starts from and the assignment of the state it ends in.
Apply(s) ==
  /\ payload' = s.payload
  /\ fetchCalls' = s.fetchCalls
  /\ pageMetadata' = s.pageMetadata
  /\ spaces' = s.spaces
  /\ currentSpaceId' = s.currentSpaceId
  /\ currentTab' = s.currentTab
  /\ currentProductIndex' = s.currentProductIndex
  /\ slides' = s.slides
  /\ activeSlides' = s.activeSlides
  /\ activeDots' = s.activeDots
  /\ modalShown' = s.modalShown
  /\ popoverVisible' = s.popoverVisible
  /\ popoverShown' = s.popoverShown
  /\ buildingActive' = s.buildingActive
  /\ detailActive' = s.detailActive
  /\ backBtnShown' = s.backBtnShown
  /\ tabsDisabled' = s.tabsDisabled
  /\ activeTabs' = s.activeTabs
  /\ modalTitle' = s.modalTitle
  /\ systemNameShown' = s.systemNameShown
  /\ activePanels' = s.activePanels
  /\ spaceSvgData' = s.spaceSvgData
  /\ overlayVisible' = s.overlayVisible
  /\ overlayData' = s.overlayData
  /\ overlayLoaded' = s.overlayLoaded
  /\ markersHidden' = s.markersHidden
  /\ markersReady' = s.markersReady
  /\ hasContainer' = s.hasContainer
  /\ markerClass' = s.markerClass
  /\ childVisible' = s.childVisible
  /\ childHidden' = s.childHidden
  /\ dimmed' = s.dimmed
  /\ bound' = s.bound
  /\ docListeners' = s.docListeners
  /\ timers' = s.timers
  /\ sinceRestore' = s.sinceRestore
  /\ restoreCalls' = s.restoreCalls
  /\ visCalls' = s.visCalls

\* ------------------------------------------------------------ SpaceModel
\* getSpace: spaces.find(s => s.id === id); Null when there is none.
GetSpace(s, id) ==
  IF \E i \in 1 .. Len(s.spaces) : s.spaces[i] = id THEN id ELSE Null

SetCurrentSpace(s, id) == [s EXCEPT !.currentSpaceId = id]

GetCurrentSpace(s) == GetSpace(s, s.currentSpaceId)

\* ------------------------------------------------------------- SpaceView
\* The dots of a carousel container without slides.
NoDots == [i \in {} |-> {}]

ShowModal(s) == [s EXCEPT !.modalShown = TRUE]

HidePopover(s) == [s EXCEPT !.popoverShown = FALSE, !.popoverVisible = FALSE]

HideModal(s) == HidePopover([s EXCEPT !.modalShown = FALSE])

SetTabsState(s, enabled) ==
  [s EXCEPT !.tabsDisabled = ~enabled,
            !.activeTabs = IF enabled THEN @ ELSE {}]

\* renderProductCarousel: an empty list leaves only a message; otherwise one
\* slide per product, the first one active, and in slide i's own dots the
\* dot i active.
RenderProductCarousel(s, n) ==
  IF n = 0
    THEN [s EXCEPT !.slides = 0, !.activeSlides = {}, !.activeDots = NoDots]
    ELSE [s EXCEPT !.slides = n,
                   !.activeSlides = {i \in 0 .. n - 1 : i = 0},
                   !.activeDots = [i \in 0 .. n - 1 |->
                                     {d \in 0 .. n - 1 : d = i}]]

\* Mutant of RenderSpaceDetails: the panels that were active are not cleared.
RenderSpaceDetailsKeepsPanels(s, space, tab) ==
  IF space = Null THEN s
  ELSE [s EXCEPT !.modalTitle = space,
                 !.systemNameShown = TRUE,
                 !.activeTabs = {t \in Tabs : t = tab},
                 !.tabsDisabled = FALSE,
                 !.activePanels = @ \cup {t \in Tabs : t = tab}]

\* renderSpaceDetails: header, tab buttons, then the one panel of the tab.
RenderSpaceDetails(s, space, tab) ==
  IF space = Null THEN s
  ELSE LET s1 == [s EXCEPT !.modalTitle = space,
                           !.systemNameShown = TRUE,
                           !.activeTabs = {t \in Tabs : t = tab},
                           !.tabsDisabled = FALSE,
                           !.activePanels = {}]
       IN CASE tab = TabOverview -> [s1 EXCEPT !.activePanels = {TabOverview}]
            [] tab = TabEquipment ->
                 RenderProductCarousel(
                   [s1 EXCEPT !.activePanels = {TabEquipment}],
                   EquipmentLen(space))
            [] tab = TabNarrative -> [s1 EXCEPT !.activePanels = {TabNarrative}]
            [] OTHER -> s1

LoadSpaceSvg(s, markerImg) == [s EXCEPT !.spaceSvgData = markerImg]

ReplaceLandingSvg(s, markerImg) ==
  [s EXCEPT !.overlayVisible = TRUE,
            !.overlayData = markerImg,
            !.overlayLoaded = FALSE,
            !.markersHidden = TRUE]

\* Mutant of UpdateMarkerVisibility: dims the others but never restores a
\* group that an earlier call dimmed.
UpdateMarkerVisibilityNoRestore(s, activeId) ==
  IF ~s.markersReady THEN s
  ELSE [s EXCEPT
          !.dimmed = @ \cup {g \in MarkerGroups :
                               Truthy(activeId) /\ Groups[g].id # activeId},
          !.visCalls = <<@[2], activeId>>]

\* Mutant of UpdateMarkerVisibility: the test for an active id is dropped,
\* so a null argument dims every group as well.
UpdateMarkerVisibilityNoNullCheck(s, activeId) ==
  IF ~s.markersReady THEN s
  ELSE LET dim == {g \in MarkerGroups : Groups[g].id # activeId}
           show == MarkerGroups \ dim
       IN [s EXCEPT !.dimmed = (@ \cup dim) \ show,
                    !.visCalls = <<@[2], activeId>>]

\* Mutant of UpdateMarkerVisibility: the tests for the content document and
\* for the marker container are missing.
UpdateMarkerVisibilityNoGuard(s, activeId) ==
  LET dim == {g \in MarkerGroups :
                Truthy(activeId) /\ Groups[g].id # activeId}
      show == MarkerGroups \ dim
  IN [s EXCEPT !.dimmed = (@ \cup dim) \ show,
               !.visCalls = <<@[2], activeId>>]

\* Mutant of UpdateMarkerVisibility: the class is toggled on the groups to
\* dim instead of added.
UpdateMarkerVisibilityToggle(s, activeId) ==
  IF ~s.markersReady \/ ~s.hasContainer THEN s
  ELSE LET dim == {g \in MarkerGroups :
                     Truthy(activeId) /\ Groups[g].id # activeId}
       IN [s EXCEPT !.dimmed = (dim \ @) \cup ((@ \ dim) \ (MarkerGroups \ dim)),
                    !.visCalls = <<@[2], activeId>>]

\* updateMarkerVisibility: no-op while the markers document is unavailable
\* or when it has no marker container (neither the pins group nor an <svg>
\* element); otherwise every group but the roof gets gh-marker-dimmed added when an
\* active id is given and differs from its id, and removed otherwise.
UpdateMarkerVisibility(s, activeId) ==
  IF ~s.markersReady \/ ~s.hasContainer THEN s
  ELSE LET dim == {g \in MarkerGroups :
                     Truthy(activeId) /\ Groups[g].id # activeId}
           show == MarkerGroups \ dim
       IN [s EXCEPT !.dimmed = (@ \cup dim) \ show,
                    !.visCalls = <<@[2], activeId>>]

\* restoreLandingSvg: hide the overlay, schedule the removal of its data
\* attribute, show the markers layer, clear the dimming.
RestoreLandingSvg(s) ==
  UpdateMarkerVisibility(
    [s EXCEPT !.overlayVisible = FALSE,
              !.timers = @ \cup {RESTORE_DELAY},
              !.markersHidden = FALSE,
              !.sinceRestore = 0,
              !.restoreCalls = @ + 1],
    Null)

\* Mutant of InitMarkerVisibility: adds the classes without removing the
\* opposite ones.
InitMarkerVisibilityNoRemove(s) ==
  [s EXCEPT
     !.markerClass = @ \cup MarkerGroups,
     !.childVisible = [g \in GroupIdx |->
        IF g \in MarkerGroups /\ Groups[g].kids > 0 THEN @[g] \cup {1} ELSE @[g]],
     !.childHidden = [g \in GroupIdx |->
        IF g \in MarkerGroups /\ Groups[g].kids > 0
          THEN @[g] \cup (2 .. Groups[g].kids) ELSE @[g]]]

\* initMarkerVisibility(doc): no-op without a document or a marker container;
\* otherwise every group but
\* the roof gets gh-marker-group; its first child becomes visible (and not
\* hidden), the later ones hidden (and not visible).
InitMarkerVisibility(s) ==
  IF ~s.markersReady \/ ~s.hasContainer THEN s
  ELSE
  [s EXCEPT
     !.markerClass = @ \cup MarkerGroups,
     !.childVisible = [g \in GroupIdx |->
        IF g \in MarkerGroups /\ Groups[g].kids > 0
          THEN (@[g] \cup {1}) \ (2 .. Groups[g].kids) ELSE @[g]],
     !.childHidden = [g \in GroupIdx |->
        IF g \in MarkerGroups /\ Groups[g].kids > 0
          THEN (@[g] \ {1}) \cup (2 .. Groups[g].kids) ELSE @[g]]]

\* Mutant of SwitchScene: the overview branch forgets setTabsState(false).
SwitchSceneKeepsTabs(s, sceneName) ==
  IF sceneName = "detail"
    THEN SetTabsState([s EXCEPT !.buildingActive = FALSE,
                                !.detailActive = TRUE,
                                !.backBtnShown = TRUE], TRUE)
    ELSE [s EXCEPT !.buildingActive = TRUE,
                   !.detailActive = FALSE,
                   !.backBtnShown = FALSE,
                   !.systemNameShown = FALSE,
                   !.modalTitle = <<>>]

SwitchScene(s, sceneName) ==
  IF sceneName = "detail"
    THEN SetTabsState([s EXCEPT !.buildingActive = FALSE,
                                !.detailActive = TRUE,
                                !.backBtnShown = TRUE], TRUE)
    ELSE SetTabsState([s EXCEPT !.buildingActive = TRUE,
                                !.detailActive = FALSE,
                                !.backBtnShown = FALSE,
                                !.systemNameShown = FALSE,
                                !.modalTitle = <<>>], FALSE)

\* ------------------------------------------------------- SpaceController
\* Mutant of HandleMarkerClick: shows the overlay and dims, but does not
\* record the selection in the model.
HandleMarkerClickNoSelect(s, spaceId) ==
  LET space == GetSpace(s, spaceId)
  IN IF space = Null THEN s
     ELSE UpdateMarkerVisibility(ReplaceLandingSvg(s, MarkerImg(space)), spaceId)

\* Mutant of HandleMarkerClick: the lookup's result is not tested.
HandleMarkerClickNoCheck(s, spaceId) ==
  UpdateMarkerVisibility(
    ReplaceLandingSvg(SetCurrentSpace(s, spaceId), MarkerImg(spaceId)),
    spaceId)

HandleMarkerClick(s, spaceId) ==
  LET space == GetSpace(s, spaceId)
  IN IF space = Null THEN s
     ELSE UpdateMarkerVisibility(
            ReplaceLandingSvg(SetCurrentSpace(s, spaceId), MarkerImg(space)),
            spaceId)

\* attachInteraction: binds a click listener carrying spaceId, once per element.
AttachInteraction(s, el, spaceId) ==
  IF s.bound[el] # Null THEN s ELSE [s EXCEPT !.bound[el] = spaceId]

\* doc.getElementById(id), then the manual scan over the <g> elements;
\* 0 when neither finds an element.
FindElement(id) ==
  LET byId == {g \in GroupIdx : id # <<>> /\ Groups[g].id = id}
      scan == {g \in GroupIdx : Groups[g].id = id}
      first(S) == CHOOSE g \in S : \A h \in S : g <= h
  IN IF byId # {} THEN first(byId)
     ELSE IF scan # {} THEN first(scan)
     ELSE 0

\* The element a space id resolves to: the id itself, else (for an id ending
\* in 's') the id without its last character.
ResolveElement(id) ==
  LET el == FindElement(id)
  IN IF el = 0 /\ Len(id) > 0 /\ id[Len(id)] = "s"
       THEN FindElement(SubSeq(id, 1, Len(id) - 1))
       ELSE el

\* Step 1 of attachSvgHandlers: the [data-space-id] elements, in document order.
DynamicElements == {g \in GroupIdx : Groups[g].tag # Null}

RECURSIVE BindDynamic(_, _)
BindDynamic(s, g) ==
  IF g > Len(Groups) THEN s
  ELSE BindDynamic(
         IF g \in DynamicElements /\ Truthy(Groups[g].tag)
           THEN AttachInteraction(s, g, Groups[g].tag) ELSE s,
         g + 1)

\* Step 2 of attachSvgHandlers: the model's spaces, in list order.
RECURSIVE BindSpaces(_, _, _)
BindSpaces(s, i, processed) ==
  IF i > Len(s.spaces) THEN s
  ELSE LET el == ResolveElement(s.spaces[i])
       IN IF el # 0 /\ el \notin processed
            THEN BindSpaces(AttachInteraction(s, el, s.spaces[i]), i + 1,
                            processed \cup {el})
            ELSE BindSpaces(s, i + 1, processed)

\* Mutant of AttachSvgHandlers: the space ids are matched before the
\* data-space-id attributes.
AttachSvgHandlersIdFirst(s) ==
  LET s1 == InitMarkerVisibility(s)
      s2 == [s1 EXCEPT !.docListeners = @ + 1]
  IN IF ~s.markersReady THEN s
     ELSE IF ~s.hasContainer THEN s2
     ELSE BindDynamic(BindSpaces(s2, 1, {}), 1)

\* attachSvgHandlers: nothing without a content document; a document without
\* an <svg> element holds none of the groups, so only the document's click
\* listener is added there.
AttachSvgHandlers(s) ==
  LET s1 == InitMarkerVisibility(s)
      s2 == [s1 EXCEPT !.docListeners = @ + 1]
      s3 == BindDynamic(s2, 1)
  IN IF ~s.markersReady THEN s
     ELSE IF ~s.hasContainer THEN s2
     ELSE BindSpaces(s3, 1, {g \in DynamicElements : Truthy(Groups[g].tag)})

RECURSIVE DocClick(_, _)
\* The click listeners of the markers document, one restoreLandingSvg each.
DocClick(s, n) == IF n = 0 THEN s ELSE DocClick(RestoreLandingSvg(s), n - 1)

\* Mutant of DispatchMarkersClick: a click on an unbound element does not
\* reach the document's listeners.
DispatchMarkersClickNoBubble(s, target) ==
  IF target \in GroupIdx /\ s.bound[target] # Null
    THEN HandleMarkerClick(s, s.bound[target])
    ELSE s

\* A click event dispatched on an element of the markers document: a bound
\* element's listener handles it and stops the propagation; otherwise it
\* bubbles to the document's listeners.
DispatchMarkersClick(s, target) ==
  IF target \in GroupIdx /\ s.bound[target] # Null
    THEN HandleMarkerClick(s, s.bound[target])
    ELSE DocClick(s, s.docListeners)

\* updateProductVisibility(index): every slide, and every dot of every
\* slide's .carousel-dots, carries 'active' exactly when its position is index.
UpdateProductVisibility(s, index) ==
  [s EXCEPT !.activeSlides = {i \in 0 .. s.slides - 1 : i = index},
            !.activeDots = [i \in 0 .. s.slides - 1 |->
                              {d \in 0 .. s.slides - 1 : d = index}]]

\* Mutant of NextProduct: the wrap test is off by one (idx > length).
NextProductLateWrap(s) ==
  LET space == GetCurrentSpace(s)
      length == EquipmentLen(space)
      idx == s.currentProductIndex + 1
  IN IF space = Null \/ length = 0 THEN s
     ELSE LET idx1 == IF idx > length THEN 0 ELSE idx
          IN UpdateProductVisibility([s EXCEPT !.currentProductIndex = idx1], idx1)

NextProduct(s) ==
  LET space == GetCurrentSpace(s)
      length == EquipmentLen(space)
      idx == s.currentProductIndex + 1
  IN IF space = Null \/ length = 0 THEN s
     ELSE LET idx1 == IF idx >= length THEN 0 ELSE idx
          IN UpdateProductVisibility([s EXCEPT !.currentProductIndex = idx1], idx1)

PrevProduct(s) ==
  LET space == GetCurrentSpace(s)
      length == EquipmentLen(space)
      idx == s.currentProductIndex - 1
  IN IF space = Null \/ length = 0 THEN s
     ELSE LET idx1 == IF idx < 0 THEN length - 1 ELSE idx
          IN UpdateProductVisibility([s EXCEPT !.currentProductIndex = idx1], idx1)

\* ---------------------------------------------------------------- history
Unset == <<"<unset>">>

Event(op, target, tab) ==
  [op |-> op, target |-> target, tab |-> tab,
   prevSpace |-> currentSpaceId, wasDetail |-> detailActive,
   prevData |-> overlayData, prevIndex |-> currentProductIndex]

\* What a view action records when it takes the scene from Overview to Detail.
Snapshot ==
  [tabsDisabled |-> tabsDisabled, modalTitle |-> modalTitle,
   systemNameShown |-> systemNameShown, overlayVisible |-> overlayVisible]

\* ------------------------------------------------------------------- Init
\* The page after the DOMContentLoaded listener has built the controller
\* and called init(): the fetch is pending, no listener is bound yet.
\* shown: whether the page's markup displays the popover; names: the space
\* names of the response the pending fetch will get.
PageInit(shown, names) ==
  /\ payload = names
  /\ fetchCalls = 1
  /\ pageMetadata = "null"
  /\ phase = "fetching"
  /\ spaces = <<>>
  /\ heroBound = FALSE
  /\ currentSpaceId = Null
  /\ currentTab = TabOverview
  /\ currentProductIndex = 0
  /\ slides = 0
  /\ activeSlides = {}
  /\ activeDots = NoDots
  /\ modalShown = FALSE
  /\ popoverVisible = FALSE
  /\ popoverShown = shown
  /\ buildingActive = TRUE
  /\ detailActive = FALSE
  /\ backBtnShown = FALSE
  /\ tabsDisabled = TRUE
  /\ activeTabs = {}
  /\ modalTitle = <<>>
  /\ systemNameShown = FALSE
  /\ activePanels = {TabOverview}
  /\ spaceSvgData = NoData
  /\ overlayVisible = FALSE
  /\ overlayData = NoData
  /\ overlayLoaded = FALSE
  /\ markersHidden = FALSE
  /\ markersReady = FALSE
  /\ hasContainer \in BOOLEAN
  /\ loadFired = FALSE
  /\ markerClass = {}
  /\ childVisible = [g \in GroupIdx |-> Groups[g].vis0]
  /\ childHidden = [g \in GroupIdx |-> Groups[g].hid0]
  /\ dimmed = {}
  /\ bound = [g \in GroupIdx |-> Null]
  /\ docListeners = 0
  /\ timers = {}
  /\ sinceRestore = RESTORE_DELAY
  /\ restoreCalls = 0
  /\ visCalls = <<Unset, Unset>>
  /\ preView = [tabsDisabled |-> TRUE, modalTitle |-> <<>>,
                systemNameShown |-> FALSE, overlayVisible |-> FALSE]
  /\ last = [op |-> "init", target |-> NoTarget, tab |-> "",
             prevSpace |-> Null, wasDetail |-> FALSE, prevData |-> NoData,
             prevIndex |-> 0]

\* The view starts with isPopoverVisible = false and no code path calls
\* showPopover: the popover is not on screen.
Init == PageInit(FALSE, DemoNames)

\* The same page with a markup that displays the popover from the start.
PopoverInit == PageInit(TRUE, DemoNames)

\* ---------------------------------------------------------------- actions
\* init() resumes after fetchData: the model is filled (an empty structure
\* when the fetch or the transformation failed), bindEvents runs, and the
\* markers handlers are attached at once when the document is already there.
FetchDone(resp) ==
  /\ phase = "fetching"
  /\ phase' = "ready"
  /\ LET data == FetchData(resp, payload)
         s0 == [St EXCEPT !.spaces = data.spaces,
                          !.pageMetadata = data.pageMetadata]
     IN /\ heroBound' = (data.pageMetadata = FullMeta)
        /\ Apply(IF markersReady THEN AttachSvgHandlers(s0) ELSE s0)
  /\ last' = Event("fetchDone", NoTarget, "")
  /\ UNCHANGED <<loadFired, preView>>

\* The markers <object> gets its content document.
MarkersDocAvailable ==
  /\ ~markersReady
  /\ Apply([St EXCEPT !.markersReady = TRUE])
  /\ last' = Event("markersDoc", NoTarget, "")
  /\ UNCHANGED <<phase, heroBound, loadFired, preView>>

\* The markers <object> dispatches load; the listener exists once init() ran.
MarkersLoadEvent ==
  /\ markersReady /\ ~loadFired
  /\ loadFired' = TRUE
  /\ Apply(IF phase = "ready" THEN AttachSvgHandlers(St) ELSE St)
  /\ last' = Event("markersLoad", NoTarget, "")
  /\ UNCHANGED <<phase, heroBound, preView>>

\* The overlay <object> dispatches load for its current data:
\* attachOverlayHandlers binds the view, close and background listeners.
OverlayLoadEvent ==
  /\ phase = "ready" /\ overlayData # NoData /\ ~overlayLoaded
  /\ Apply([St EXCEPT !.overlayLoaded = TRUE])
  /\ last' = Event("overlayLoad", NoTarget, "")
  /\ UNCHANGED <<phase, heroBound, loadFired, preView>>

\* First hero button.
OpenModal ==
  /\ phase = "ready" /\ heroBound /\ ~modalShown
  /\ Apply(SwitchScene(ShowModal(St), TabOverview))
  /\ last' = Event("openModal", NoTarget, "")
  /\ UNCHANGED <<phase, heroBound, loadFired, preView>>

\* Mutant of ModalClose: the modal is hidden but the overlay is not restored.
ModalCloseNoRestore ==
  /\ phase = "ready" /\ modalShown
  /\ Apply(HideModal(St))
  /\ last' = Event("modalClose", NoTarget, "")
  /\ UNCHANGED <<phase, heroBound, loadFired, preView>>

\* Modal close button.
ModalClose ==
  /\ phase = "ready" /\ modalShown
  /\ Apply(RestoreLandingSvg(HideModal(St)))
  /\ last' = Event("modalClose", NoTarget, "")
  /\ UNCHANGED <<phase, heroBound, loadFired, preView>>

\* Mutant of BackClick: the scene is switched but the overlay is not restored.
BackClickNoRestore ==
  /\ phase = "ready" /\ modalShown /\ backBtnShown
  /\ Apply(SwitchScene(St, "overview"))
  /\ last' = Event("back", NoTarget, "")
  /\ UNCHANGED <<phase, heroBound, loadFired, preView>>

\* Back button.
BackClick ==
  /\ phase = "ready" /\ modalShown /\ backBtnShown
  /\ Apply(RestoreLandingSvg(SwitchScene(St, "overview")))
  /\ last' = Event("back", NoTarget, "")
  /\ UNCHANGED <<phase, heroBound, loadFired, preView>>

\* The body shared by the two view listeners once a current space resolves.
EnterDetail(s, space) ==
  LoadSpaceSvg(RenderSpaceDetails(SwitchScene(s, "detail"), space, TabOverview),
               MarkerImg(space))

\* Mutant of PopoverView: the test of the current space is missing.
PopoverViewNoCheck ==
  /\ phase = "ready" /\ modalShown /\ popoverShown
  /\ Apply(EnterDetail(HidePopover(St), GetCurrentSpace(St)))
  /\ preView' = IF ~detailActive THEN Snapshot ELSE preView
  /\ last' = Event("popoverView", NoTarget, "")
  /\ UNCHANGED <<phase, heroBound, loadFired>>

\* Popover "View" button.
PopoverView ==
  /\ phase = "ready" /\ modalShown /\ popoverShown
  /\ LET space == GetCurrentSpace(St)
     IN /\ Apply(IF space # Null THEN EnterDetail(HidePopover(St), space) ELSE St)
        /\ preView' = IF space # Null /\ ~detailActive THEN Snapshot ELSE preView
  /\ last' = Event("popoverView", NoTarget, "")
  /\ UNCHANGED <<phase, heroBound, loadFired>>

\* Popover close button.
PopoverClose ==
  /\ phase = "ready" /\ modalShown /\ popoverShown
  /\ Apply(RestoreLandingSvg(HidePopover(St)))
  /\ last' = Event("popoverClose", NoTarget, "")
  /\ UNCHANGED <<phase, heroBound, loadFired, preView>>

\* A modal tab; a disabled button dispatches no click.
TabClick(tab) ==
  /\ phase = "ready" /\ modalShown /\ ~tabsDisabled
  /\ Apply(RenderSpaceDetails(St, GetCurrentSpace(St), tab))
  /\ last' = Event("tab", NoTarget, tab)
  /\ UNCHANGED <<phase, heroBound, loadFired, preView>>

\* The carousel is on screen: Detail scene, equipment panel, a slide shown.
CarouselShown ==
  /\ phase = "ready" /\ modalShown /\ detailActive
  /\ TabEquipment \in activePanels
  /\ activeSlides # {}

\* Click on the shown slide's "next" button (carousel click delegation).
CarouselNext ==
  /\ CarouselShown
  /\ Apply(NextProduct(St))
  /\ last' = Event("next", NoTarget, "")
  /\ UNCHANGED <<phase, heroBound, loadFired, preView>>

\* Click on the shown slide's "prev" button (carousel click delegation).
CarouselPrev ==
  /\ CarouselShown
  /\ Apply(PrevProduct(St))
  /\ last' = Event("prev", NoTarget, "")
  /\ UNCHANGED <<phase, heroBound, loadFired, preView>>

\* Click on dot k of the shown slide.  The listener is an arrow function
\* created in SpaceView.renderProductCarousel, and a SpaceView has no model:
\* the assignment to this.model.currentProductIndex throws a TypeError, the
\* listener ends there, and the delegation never sees the click
\* (stopPropagation ran first).
DotClick(k) ==
  /\ CarouselShown
  /\ k \in 0 .. slides - 1
  /\ Apply(St)
  /\ last' = Event("dot", k, "")
  /\ UNCHANGED <<phase, heroBound, loadFired, preView>>

\* A click inside the markers layer while it is the layer on top.
MarkerClick(target) ==
  /\ modalShown /\ buildingActive /\ markersReady /\ ~markersHidden
  /\ target \in GroupIdx => hasContainer
  /\ Apply(DispatchMarkersClick(St, target))
  /\ last' = Event("markerClick", target, "")
  /\ UNCHANGED <<phase, heroBound, loadFired, preView>>

\* The overlay's "view" control.
OverlayView ==
  /\ modalShown /\ buildingActive /\ overlayVisible /\ overlayLoaded
  /\ LET space == GetCurrentSpace(St)
     IN /\ Apply(IF space # Null THEN EnterDetail(St, space) ELSE St)
        /\ preView' = IF space # Null /\ ~detailActive THEN Snapshot ELSE preView
  /\ last' = Event("overlayView", NoTarget, "")
  /\ UNCHANGED <<phase, heroBound, loadFired>>

\* The overlay's "close" control.
OverlayClose ==
  /\ modalShown /\ buildingActive /\ overlayVisible /\ overlayLoaded
  /\ Apply(RestoreLandingSvg(St))
  /\ last' = Event("overlayClose", NoTarget, "")
  /\ UNCHANGED <<phase, heroBound, loadFired, preView>>

\* Mutant of OverlayBackgroundClick: the return after the forwarded click is
\* missing, so the handler falls through to restoreLandingSvg.
OverlayBackgroundClickNoReturn(target) ==
  /\ modalShown /\ buildingActive /\ overlayVisible /\ overlayLoaded
  /\ Apply(RestoreLandingSvg(IF markersReady /\ target # NoTarget
                               THEN DispatchMarkersClick(St, target)
                               ELSE St))
  /\ last' = Event("overlayBg", target, "")
  /\ UNCHANGED <<phase, heroBound, loadFired, preView>>

\* A click on the overlay document outside its controls; target is what
\* elementFromPoint finds in the markers document at the same coordinates.
OverlayBackgroundClick(target) ==
  /\ modalShown /\ buildingActive /\ overlayVisible /\ overlayLoaded
  /\ Apply(IF markersReady /\ target # NoTarget
             THEN DispatchMarkersClick(St, target)
             ELSE RestoreLandingSvg(St))
  /\ last' = Event("overlayBg", target, "")
  /\ UNCHANGED <<phase, heroBound, loadFired, preView>>

\* A restore timer expires: overlay.removeAttribute('data').
TimerFire ==
  /\ 0 \in timers
  /\ Apply([St EXCEPT !.timers = @ \ {0},
                      !.overlayData = NoData,
                      !.overlayLoaded = FALSE])
  /\ last' = Event("timer", NoTarget, "")
  /\ UNCHANGED <<phase, heroBound, loadFired, preView>>

\* TickMs milliseconds pass; a due timer fires before more time passes.
Tick ==
  /\ 0 \notin timers
  /\ timers # {} \/ sinceRestore < RESTORE_DELAY
  /\ Apply([St EXCEPT !.timers = {Max(t - TickMs, 0) : t \in @},
                      !.sinceRestore = Min(@ + TickMs, RESTORE_DELAY)])
  /\ last' = Event("tick", NoTarget, "")
  /\ UNCHANGED <<phase, heroBound, loadFired, preView>>

Next ==
  \/ \E resp \in Responses : FetchDone(resp)
  \/ MarkersDocAvailable
  \/ MarkersLoadEvent
  \/ OverlayLoadEvent
  \/ OpenModal
  \/ ModalClose
  \/ BackClick
  \/ \E tab \in Tabs : TabClick(tab)
  \/ CarouselNext
  \/ CarouselPrev
  \/ \E k \in 0 .. MaxEquipment - 1 : DotClick(k)
  \/ \E target \in Targets : MarkerClick(target)
  \/ OverlayView
  \/ OverlayClose
  \/ \E target \in Targets \cup {NoTarget} : OverlayBackgroundClick(target)
  \/ TimerFire
  \/ Tick

Spec == Init /\ [][Next]_vars

\* The popover's two buttons can be clicked only on a page whose markup
\* displays the popover; that page is a specification of its own.  It leaves
\* the carousel's buttons out: they write currentProductIndex and the slide
\* and dot classes only, which no other handler reads.
PopoverNext ==
  \/ \E resp \in Responses : FetchDone(resp)
  \/ MarkersDocAvailable
  \/ MarkersLoadEvent
  \/ OverlayLoadEvent
  \/ OpenModal
  \/ ModalClose
  \/ BackClick
  \/ PopoverView
  \/ PopoverClose
  \/ \E tab \in Tabs : TabClick(tab)
  \/ \E target \in Targets : MarkerClick(target)
  \/ OverlayView
  \/ OverlayClose
  \/ \E target \in Targets \cup {NoTarget} : OverlayBackgroundClick(target)
  \/ TimerFire
  \/ Tick

PopoverSpec == PopoverInit /\ [][PopoverNext]_vars

\* ----------------------------------------------- the adapter on any payload
\* The characters of the enumerated space names: a lower-case letter, an
\* upper-case letter, a digit, and two characters outside [a-z0-9].
NameChars == {"a", "B", "7", " ", "-"}

RECURSIVE Strings(_)
Strings(n) ==
  IF n = 0 THEN {<<>>}
  ELSE Strings(n - 1) \cup
       {Append(str, c) : str \in Strings(n - 1), c \in NameChars}

ScienceLab == <<"S", "c", "i", "e", "n", "c", "e", " ", "L", "a", "b">>
SchoolGym == DemoNames[1]

\* The names a payload entry can carry; Null is an entry without Title and Name.
Names == Strings(MaxNameLen) \cup {Null, ScienceLab, SchoolGym}

NameLists == UNION {[1 .. n -> Names] : n \in 0 .. MaxSpaces}

\* The page whose fetch will get an arbitrary payload.
AdapterInit == \E names \in NameLists : PageInit(FALSE, names)

AdapterNext == \E resp \in Responses : FetchDone(resp)

AdapterSpec == AdapterInit /\ [][AdapterNext]_vars

\* The event loop runs a due timer callback, and time passes.
FairSpec == Spec /\ WF_vars(TimerFire) /\ WF_vars(Tick)

\* ================================================================= claims
\* The space a group's click listener resolves to in the model (Null when
\* the group is unbound or its id is unknown to the model).
BoundSpace(g) == IF g \in GroupIdx THEN GetSpace(St, bound[g]) ELSE Null

\* The effects of the overlay-restore sequence, right after it ran.
Restored == ~overlayVisible /\ ~markersHidden /\ dimmed = {}

\* C1: a click on the marker bound to a space S of the model leaves
\* currentSpaceId = S, the overlay visible with S's marker image as its
\* data, the markers layer hidden and every other marker group dimmed.
C1_MarkerClickSelects ==
  (last.op = "markerClick" /\ BoundSpace(last.target) # Null) =>
    LET S == BoundSpace(last.target)
    IN /\ currentSpaceId = S
       /\ overlayVisible
       /\ overlayData = MarkerImg(S)
       /\ markersHidden
       /\ \A g \in MarkerGroups :
            (g # last.target /\ Groups[g].id # S) => g \in dimmed

C1_Witness ==
  /\ last.op = "markerClick"
  /\ BoundSpace(last.target) = Gym
  /\ last.prevSpace = Classrooms
  /\ overlayData = MarkerImg(Gym)

\* C2: with the overlay shown for A, a background click that lands over the
\* marker of another bound space B selects B (overlay visible with B's
\* image) and the handler makes no restoreLandingSvg call on the way.
C2_SeamlessSwitch ==
  (/\ last.op = "overlayBg"
   /\ BoundSpace(last.target) # Null
   /\ BoundSpace(last.target) # last.prevSpace) =>
    LET B == BoundSpace(last.target)
    IN /\ currentSpaceId = B
       /\ overlayVisible
       /\ overlayData = MarkerImg(B)
       /\ restoreCalls = 0

C2_Witness ==
  /\ last.op = "overlayBg"
  /\ last.prevSpace = Lobby
  /\ BoundSpace(last.target) = Gym
  /\ currentSpaceId = Gym

\* C3: after setActive(A) directly followed by setActive(B), for ids A # B
\* of marker groups, A's group is dimmed, B's is not, and every group other
\* than B's is dimmed.
C3_SetActiveTwice ==
  \A a, b \in MarkerGroups :
    (/\ a # b
     /\ Groups[a].id = visCalls[1]
     /\ Groups[b].id = visCalls[2]) =>
      /\ a \in dimmed
      /\ b \notin dimmed
      /\ \A g \in MarkerGroups \ {b} : g \in dimmed

C3_Witness == visCalls = <<Gym, Lobby>> /\ dimmed # {}

\* C4: after setActive(null) on the loaded markers document no marker group
\* is dimmed, whatever calls came before.
C4_NullClearsDimming == visCalls[2] = Null => dimmed = {}

C4_Witness == visCalls = <<Classrooms, Null>> /\ markersReady

\* C5: once initialize has run, every marker group but the roof carries the
\* marker class, its first child is visible and not hidden, its later
\* children are hidden and not visible, and one more run changes nothing.
C5_InitializeIdempotent ==
  (docListeners >= 1 /\ hasContainer) =>
    /\ \A g \in MarkerGroups :
         /\ g \in markerClass
         /\ Groups[g].kids > 0 =>
              /\ childVisible[g] = {1}
              /\ childHidden[g] = 2 .. Groups[g].kids
    /\ InitMarkerVisibility(St) = St

C5_Witness == docListeners = 2 /\ childVisible[3] = {1}

\* C6: closing the modal or dismissing the overlay (overlay close, popover
\* close, background click that ends in a restore) leaves currentSpaceId
\* absent.
C6_DismissResetsSelection ==
  (\/ last.op \in {"modalClose", "overlayClose", "popoverClose"}
   \/ last.op = "overlayBg" /\ restoreCalls > 0) =>
    currentSpaceId = Null

\* C7 (as claimed): the round trip Overview -> Detail -> Overview by a view
\* action and the back control restores tab enablement, header text and the
\* overlay's visibility to what they were before the view action.
C7_RoundTripRestoresAll ==
  (last.op = "back" /\ last.wasDetail) =>
    /\ tabsDisabled = preView.tabsDisabled
    /\ modalTitle = preView.modalTitle
    /\ systemNameShown = preView.systemNameShown
    /\ overlayVisible = preView.overlayVisible

\* C7 (amended): the round trip restores tab enablement and header text;
\* the overlay is hidden afterwards, whatever its visibility was before.
C7_RoundTripRestoresHeaderAndTabs ==
  (last.op = "back" /\ last.wasDetail) =>
    /\ tabsDisabled = preView.tabsDisabled
    /\ modalTitle = preView.modalTitle
    /\ systemNameShown = preView.systemNameShown
    /\ ~overlayVisible

C7_Witness ==
  /\ last.op = "back"
  /\ last.wasDetail
  /\ preView.overlayVisible
  /\ preView.tabsDisabled
  /\ tabsDisabled

\* C8: from Detail, the back control leaves the Overview scene (building
\* scene active, detail scene inactive, back control hidden, tabs disabled,
\* header cleared) and runs the overlay-restore sequence.
C8_BackLeavesOverview ==
  (last.op = "back" /\ last.wasDetail) =>
    /\ buildingActive /\ ~detailActive /\ ~backBtnShown
    /\ tabsDisabled /\ activeTabs = {}
    /\ modalTitle = <<>> /\ ~systemNameShown
    /\ restoreCalls = 1
    /\ RESTORE_DELAY \in timers
    /\ Restored

C8_Witness ==
  /\ last.op = "back"
  /\ last.wasDetail
  /\ currentSpaceId = Lobby
  /\ last.prevData = MarkerImg(Lobby)
  /\ buildingActive

\* C9 (as claimed): from Detail, right after the modal is closed the scene
\* is Overview and the overlay-restore sequence has run.
C9_CloseLeavesOverview ==
  (last.op = "modalClose" /\ last.wasDetail) =>
    /\ buildingActive /\ ~detailActive /\ ~backBtnShown /\ tabsDisabled
    /\ Restored

\* C9 (amended): from Detail, closing the modal hides the modal and runs the
\* overlay-restore sequence but leaves the scene in Detail (detail scene
\* active, back control shown, tabs enabled); the switch to Overview is made
\* when the modal is next opened.
C9_CloseKeepsSceneUntilReopen ==
  /\ (last.op = "modalClose" /\ last.wasDetail) =>
       /\ ~modalShown /\ ~popoverVisible
       /\ restoreCalls = 1
       /\ Restored
       /\ detailActive /\ ~buildingActive /\ backBtnShown /\ ~tabsDisabled
  /\ last.op = "openModal" =>
       /\ modalShown
       /\ buildingActive /\ ~detailActive /\ ~backBtnShown /\ tabsDisabled

C9_Witness ==
  /\ last.op = "modalClose"
  /\ last.wasDetail
  /\ detailActive
  /\ ~modalShown

\* C10: restore() hides the overlay, shows the markers layer and clears the
\* dimming at once, and the overlay's data is not cleared before the delay
\* has elapsed since the restore.
C10_RestoreDelaysClearing ==
  /\ restoreCalls > 0 => Restored
  /\ (last.op = "timer" /\ last.prevData # NoData) =>
       sinceRestore >= RESTORE_DELAY

\* C10, the parts that hold: the immediate effects of restore(), and (under
\* FairSpec) the data being absent eventually unless a selection follows.
C10_ImmediateEffects == restoreCalls > 0 => Restored

C10_EventuallyCleared ==
  [](restoreCalls > 0 =>
       <>(overlayData = NoData \/ last.op \in {"markerClick", "overlayBg"}))

\* C11: while the markers document is loaded, a marker group is dimmed
\* exactly when currentSpaceId is set and differs from the group's id, and
\* the group whose id is currentSpaceId is never dimmed.
C11_DimmedIffNotCurrent ==
  markersReady =>
    \A g \in MarkerGroups :
      /\ g \in dimmed <=> (currentSpaceId # Null /\ Groups[g].id # currentSpaceId)
      /\ Groups[g].id = currentSpaceId => g \notin dimmed

\* C11, the part that holds: the group of the current space is never dimmed,
\* and right after a selection the dimmed groups are exactly the others.
C11_CurrentNeverDimmed ==
  /\ \A g \in MarkerGroups : Groups[g].id = currentSpaceId => g \notin dimmed
  /\ (markersReady /\ visCalls[2] # Null /\ visCalls[2] # Unset) =>
       \A g \in MarkerGroups : g \in dimmed <=> Groups[g].id # currentSpaceId

\* C12: whenever the current space has a non-empty equipment list,
\* 0 <= currentProductIndex < its length.
C12_IndexInRange ==
  LET space == GetCurrentSpace(St)
  IN (space # Null /\ EquipmentLen(space) > 0) =>
       currentProductIndex \in 0 .. EquipmentLen(space) - 1

\* C13: for a list of length n >= 1 and an index i in [0, n), next() leaves
\* (i + 1) mod n and prev() leaves (i - 1 + n) mod n (so next at n - 1 gives
\* 0 and prev at 0 gives n - 1), prev() after next() gives i again; without
\* a current space or with an empty list both leave the index as it is.
C13_NextPrevCircular ==
  LET space == GetCurrentSpace(St)
      n == EquipmentLen(space)
      i == currentProductIndex
      m == EquipmentLen(GetSpace(St, last.prevSpace))
  IN /\ (space # Null /\ n >= 1 /\ i \in 0 .. n - 1) =>
          /\ NextProduct(St).currentProductIndex = (i + 1) % n
          /\ PrevProduct(St).currentProductIndex = (i - 1 + n) % n
          /\ PrevProduct(NextProduct(St)).currentProductIndex = i
          /\ i = n - 1 => NextProduct(St).currentProductIndex = 0
          /\ i = 0 => PrevProduct(St).currentProductIndex = n - 1
     /\ (space = Null \/ n = 0) =>
          /\ NextProduct(St).currentProductIndex = i
          /\ PrevProduct(St).currentProductIndex = i
     /\ (last.op = "next" /\ m >= 1 /\ last.prevIndex \in 0 .. m - 1) =>
          currentProductIndex = (last.prevIndex + 1) % m
     /\ (last.op = "prev" /\ m >= 1 /\ last.prevIndex \in 0 .. m - 1) =>
          currentProductIndex = (last.prevIndex - 1 + m) % m

C13_Witness ==
  /\ last.op = "next"
  /\ currentSpaceId = Gym
  /\ last.prevIndex = MaxEquipment - 1
  /\ currentProductIndex = 0

\* C14: activating dot k (0 <= k < length) sets currentProductIndex to k and
\* makes slide k the active slide.
C14_DotSetsIndex ==
  last.op = "dot" =>
    /\ currentProductIndex = last.target
    /\ activeSlides = {last.target}

\* C15: a tab switch to T while a space is selected leaves
\* SelectionState.currentTab = T.
C15_TabSwitchSetsCurrentTab ==
  (last.op = "tab" /\ GetSpace(St, last.prevSpace) # Null) =>
    currentTab = last.tab

\* C16: a tab switch changes neither the scene, nor the overlay's visibility
\* and content source, nor the markers layer's visibility, nor the dimming,
\* nor currentSpaceId, and leaves exactly one of the three panels active.
C16_TabSwitchFrame ==
  [][last'.op = "tab" =>
       /\ UNCHANGED <<buildingActive, detailActive, overlayVisible, overlayData,
                      markersHidden, dimmed, currentSpaceId>>
       /\ Cardinality(activePanels') = 1]_vars

C16_Witness ==
  /\ last.op = "tab"
  /\ last.tab = TabNarrative
  /\ activePanels = {TabNarrative}
  /\ overlayVisible
  /\ currentSpaceId = Lobby

\* The space id attachSvgHandlers binds to group g when the data-space-id
\* attribute is tried first, then the exact id, then the singular form of a
\* plural space id that no element carries.
ExpectedBinding(g) ==
  LET ids == {spaces[i] : i \in 1 .. Len(spaces)}
      plural == Groups[g].id \o <<"s">>
  IN IF Truthy(Groups[g].tag) THEN Groups[g].tag
     ELSE IF Groups[g].id \in ids THEN Groups[g].id
     ELSE IF plural \in ids /\ \A h \in GroupIdx : Groups[h].id # plural
       THEN plural
     ELSE Null

C18_UnknownIdAbandoned ==
  [][(/\ last'.op \in {"markerClick", "overlayBg"}
      /\ last'.target \in GroupIdx
      /\ bound[last'.target] # Null
      /\ GetSpace(St, bound[last'.target]) = Null) =>
       UNCHANGED <<currentSpaceId, overlayVisible, overlayData, markersHidden,
                   dimmed, buildingActive, detailActive>>]_vars

C18_Witness ==
  /\ last.op = "overlayBg"
  /\ last.target \in GroupIdx
  /\ bound[last.target] = Ghost
  /\ overlayVisible
  /\ currentSpaceId = Gym

\* C19: while the markers document is not loaded, or when it has no marker
\* container, initialize and setActive change nothing: no marker class has
\* changed, both return the state they were given, and a restore made in
\* such a state leaves the selection as it was.
C19_NoOpWithoutDocument ==
  (~markersReady \/ ~hasContainer) =>
    /\ markerClass = {} /\ dimmed = {}
    /\ childVisible = [g \in GroupIdx |-> Groups[g].vis0]
    /\ childHidden = [g \in GroupIdx |-> Groups[g].hid0]
    /\ InitMarkerVisibility(St) = St
    /\ \A id \in {Null, Gym, Lobby, Classrooms, Ghost} :
         UpdateMarkerVisibility(St, id) = St
    /\ restoreCalls > 0 => currentSpaceId = last.prevSpace

C19_Witness ==
  /\ markersReady /\ ~hasContainer
  /\ docListeners >= 1
  /\ restoreCalls > 0

\* C20: an overlay background click that cannot be delivered to a marker
\* (nothing beneath, markers document unavailable, or an element beneath
\* that carries no marker binding) ends in a restore: the overlay is hidden.
C20_UndeliveredClickRestores ==
  (/\ last.op = "overlayBg"
   /\ \/ last.target = NoTarget
      \/ ~markersReady
      \/ last.target = RootTarget
      \/ last.target \in GroupIdx /\ bound[last.target] = Null) =>
    /\ restoreCalls >= 1
    /\ Restored

C20_Witness ==
  /\ last.op = "overlayBg"
  /\ last.target \in GroupIdx
  /\ bound[last.target] = Null
  /\ last.prevSpace = Gym
  /\ ~overlayVisible

\* C21: when the one fetch fails or the response is malformed, one fetch has
\* been made, init() completes with an empty space list and empty page
\* metadata, and no click on any element of the markers document sets a
\* current space afterwards.
C21_FetchFailsClosed ==
  /\ fetchCalls = 1
  /\ \A resp \in Responses \ {"ok"} : FetchData(resp, payload) = EmptyData
  /\ (phase = "ready" /\ pageMetadata = EmptyMeta) =>
       /\ spaces = <<>>
       /\ ~heroBound /\ ~modalShown
       /\ currentSpaceId = Null
       /\ \A target \in Targets :
            DispatchMarkersClick(St, target).currentSpaceId = Null

C21_Witness ==
  /\ phase = "ready" /\ pageMetadata = EmptyMeta
  /\ last.op = "markersLoad"
  /\ bound[5] = Ghost
  /\ docListeners = 2

\* The stated slug rule: the maximal runs of letters and digits of the
\* lower-cased name, joined by single hyphens.
RECURSIVE JoinRuns(_, _, _)
JoinRuns(low, i, started) ==
  IF i > Len(low) THEN <<>>
  ELSE IF ~IsAlnum(low[i]) THEN JoinRuns(low, i + 1, started)
  ELSE (IF started /\ ~IsAlnum(low[i - 1]) THEN <<"-">> ELSE <<>>)
         \o <<low[i]>> \o JoinRuns(low, i + 1, TRUE)

SlugRule(name) ==
  IF name = Null \/ name = <<>> THEN UnknownSpace
  ELSE LET slug == JoinRuns(ToLowerCase(name), 1, FALSE)
       IN IF slug = SchoolGymSlug THEN Gym ELSE slug

ScienceLabId == <<"s", "c", "i", "e", "n", "c", "e", "-", "l", "a", "b">>

\* C22: the id generated for a name is a function of the name alone and is
\* the slug of the stated rule with the override applied: "Science Lab"
\* gives science-lab, "School Gym" gives gym, a missing or empty name gives
\* unknown-space.
C22_GenerateIdIsSlug ==
  /\ GenerateId(ScienceLab) = ScienceLabId
  /\ GenerateId(SchoolGym) = Gym
  /\ GenerateId(<<>>) = UnknownSpace /\ GenerateId(Null) = UnknownSpace
  /\ (phase = "ready" /\ pageMetadata = FullMeta) =>
       /\ Len(spaces) = Len(payload)
       /\ \A i \in 1 .. Len(payload) : spaces[i] = SlugRule(payload[i])
       /\ \A i, j \in 1 .. Len(payload) :
            payload[i] = payload[j] => spaces[i] = spaces[j]

C22_Witness ==
  /\ phase = "ready" /\ pageMetadata = FullMeta
  /\ payload = << <<" ", "B", "-">>, <<"a", " ", "7">> >>
  /\ spaces = << <<"b">>, <<"a", "-", "7">> >>

\* C23: for a payload whose space names are pairwise distinct, the ids of
\* the model's spaces are pairwise distinct and non-empty, so an id names
\* exactly one space of the list.
C23_IdsUnique ==
  (/\ phase = "ready" /\ pageMetadata = FullMeta
   /\ \A i, j \in 1 .. Len(payload) : i # j => payload[i] # payload[j]) =>
    /\ \A i, j \in 1 .. Len(spaces) : i # j => spaces[i] # spaces[j]
    /\ \A i \in 1 .. Len(spaces) :
         /\ spaces[i] # <<>>
         /\ Cardinality({j \in 1 .. Len(spaces) : spaces[j] = spaces[i]}) = 1

\* C24: whenever the overlay is visible (a selection with no restore after
\* it), its data is the marker image of the current space, whatever timers
\* of earlier restores expire in between.
C24_SelectionKeepsContent ==
  overlayVisible => overlayData = MarkerImg(currentSpaceId)

\* C25: however often the markers load handler ran, every element is bound
\* once by the first matching rule, one more run changes nothing, and a
\* click runs one selection or one restore sequence.
C25_LoadHandlerIdempotent ==
  docListeners >= 1 =>
    /\ hasContainer => \A g \in GroupIdx : bound[g] = ExpectedBinding(g)
    /\ AttachSvgHandlers(St) = St
    /\ last.op \in {"markerClick", "overlayBg"} => restoreCalls <= 1

\* C25, the part that holds: the element bindings after any number of runs
\* are those of one run, and a click on a bound marker of a known space
\* makes one selection and no restore.
C25_BoundOnce ==
  (docListeners >= 1 /\ hasContainer) =>
    /\ \A g \in GroupIdx : bound[g] = ExpectedBinding(g)
    /\ AttachSvgHandlers(St).bound = bound
    /\ (last.op = "markerClick" /\ BoundSpace(last.target) # Null) =>
         /\ restoreCalls = 0
         /\ visCalls[2] = currentSpaceId

\* C26: after a click on a marker element bound to a space of the model by
\* any of the three rules, the clicked group is not dimmed and every other
\* marker group is dimmed.
C26_ClickedMarkerNotDimmed ==
  (/\ last.op = "markerClick"
   /\ last.target \in MarkerGroups
   /\ BoundSpace(last.target) # Null) =>
    /\ last.target \notin dimmed
    /\ \A g \in MarkerGroups \ {last.target} : g \in dimmed

\* C27: after next() or prev() on the rendered carousel exactly one slide is
\* active, the one at currentProductIndex, and in every slide's dots exactly
\* the dot at that index is active.
C27_OneActiveSlide ==
  last.op \in {"next", "prev"} =>
    /\ Cardinality(activeSlides) = 1
    /\ activeSlides = {currentProductIndex}
    /\ \A i \in 0 .. slides - 1 : activeDots[i] = {currentProductIndex}

\* C28: while the equipment carousel is rendered with slides, the active
\* slide is the one at currentProductIndex, right after a (re-)render too.
C28_ActiveSlideIsIndex ==
  (TabEquipment \in activePanels /\ slides > 0) =>
    activeSlides = {currentProductIndex}

\* The current space resolves in the model.
Resolves == GetCurrentSpace(St) # Null

\* C29: the Detail scene is entered only by a view action (overlay view or
\* popover view) taken while the current space resolves; whenever the detail
\* scene is active the current space resolves; and a view action taken
\* without a resolvable current space changes neither the scene, nor the
\* header, nor the tabs, nor the detail SVG.
C29_DetailOnlyViaView ==
  [][/\ detailActive' => Resolves'
     /\ (~detailActive /\ detailActive') =>
          /\ last'.op \in {"overlayView", "popoverView"}
          /\ Resolves
     /\ (last'.op \in {"overlayView", "popoverView"} /\ ~Resolves) =>
          UNCHANGED <<buildingActive, detailActive, backBtnShown, modalTitle,
                      systemNameShown, tabsDisabled, activeTabs, activePanels,
                      spaceSvgData>>]_vars

C29_Witness ==
  /\ last.op = "popoverView"
  /\ last.prevSpace = Null
  /\ modalShown /\ buildingActive /\ ~detailActive
  /\ markersReady /\ docListeners >= 1

\* The arguments setActive is given: null, the ids of the elements of the
\* markers document, the ids of the model's spaces, and an unknown id.
ActiveIds ==
  {Null, Ghost} \cup {SpaceData[i] : i \in 1 .. Len(SpaceData)}
    \cup {Groups[g].id : g \in {h \in GroupIdx : Groups[h].id # <<>>}}

\* C30: the groups dimmed after setActive(x) are a function of the marker
\* ids and x alone (whatever was dimmed before), a second setActive(x)
\* changes nothing, and for an id x at most one marker group is left
\* un-dimmed; the same holds after the calls the handlers make.
C30_SetActivePure ==
  /\ (markersReady /\ hasContainer) =>
       \A x \in ActiveIds :
         LET s1 == UpdateMarkerVisibility(St, x)
         IN /\ s1.dimmed = {g \in MarkerGroups : x # Null /\ Groups[g].id # x}
            /\ UpdateMarkerVisibility(s1, x).dimmed = s1.dimmed
            /\ x # Null => Cardinality(MarkerGroups \ s1.dimmed) <= 1
  /\ (visCalls[2] # Null /\ visCalls[2] # Unset) =>
       Cardinality(MarkerGroups \ dimmed) <= 1

C30_Witness ==
  /\ visCalls = <<Gym, Gym>>
  /\ dimmed = MarkerGroups \ {2}
  /\ last.op = "overlayBg"

====
